---- MODULE Spec2Model ----
(***************************************************************************)
(* A model of the shell emulator of src/main.py (class ShellEmulator).     *)
(*                                                                         *)
(* Path strings are modelled as the sequence of their "/"-separated        *)
(* segments: "root" is <<"root">>, "subdir/file1.txt" is                   *)
(* <<"subdir", "file1.txt">> and the empty string "" is << >>.  A path     *)
(* below the extraction directory temp_fs is the sequence of the segments  *)
(* after temp_fs, so temp_fs itself is << >>.  The directories of a tree    *)
(* include temp_fs itself; an empty archive in a fresh working directory   *)
(* extracts nothing, and then temp_fs does not exist.                      *)
(***************************************************************************)
EXTENDS Integers, Sequences, FiniteSets, TLC

VARIABLES
    tree,        \* the extracted directory tree temp_fs: [dirs, files, lines]
    mode,        \* permission bits of every node of the tree (os.chmod)
    privileged,  \* whether the process bypasses permission checks
    fs,          \* self.fs : mapping from logical path to its entries
    cwd,         \* self.cwd
    log,         \* self.log
    disk,        \* the content of the file at self.log_path
    running,     \* FALSE once exit() has terminated the process
    last,        \* the command line run_command executed last
    out          \* what that command printed, one element per print call

vars == <<tree, mode, privileged, fs, cwd, log, disk, running, last, out>>

---------------------------------------------------------------------------
(* Bounds of the model *)

\* the number of files and directories of the extracted tree
MaxEntries == 2
\* the number of entries of the audit log
MaxLog == 4

\* the names of the directories and of the files of the tree
DirNames == {"root", "subdir"}
FileNames == {"file1.txt"}
Names == DirNames \cup FileNames
\* the order in which the operating system lists the entries of a directory
ScanOrder == <<"file1.txt", "root", "subdir">>
\* the number of lines a file of the tree can have
LineCounts == {3, 12}
\* the permission arguments given to chmod
ModeTokens == {"644", "000", "99x", "77777777777"}
\* a verb that run_command does not know
OtherVerbs == {"pwd"}
\* the archive path of the configuration
FsPath == "filesystem.zip"

---------------------------------------------------------------------------
(* Paths *)

ROOT == <<"root">>

\* os.path.dirname: everything before the last "/", "" when there is none
Dirname(p) == IF Len(p) = 0 THEN <<>> ELSE SubSeq(p, 1, Len(p) - 1)

\* os.path.join(a, name): an empty first component is skipped
Join(a, name) == a \o <<name>>

\* the characters of a permission argument
Chars(token) ==
    CASE token = "644" -> <<"6", "4", "4">>
      [] token = "000" -> <<"0", "0", "0">>
      [] token = "99x" -> <<"9", "9", "x">>
      [] token = "77777777777" ->
            <<"7", "7", "7", "7", "7", "7", "7", "7", "7", "7", "7">>

CIntMaxOctal == <<"1", "7", "7", "7", "7", "7", "7", "7", "7", "7", "7">>

OctalDigits == {"0", "1", "2", "3", "4", "5", "6", "7"}

DigitValue(c) ==
    CASE c = "0" -> 0 [] c = "1" -> 1 [] c = "2" -> 2 [] c = "3" -> 3
      [] c = "4" -> 4 [] c = "5" -> 5 [] c = "6" -> 6 [] c = "7" -> 7

\* int(s, 8) raises ValueError unless s is a non-empty run of octal digits
IsOctal(cs) == Len(cs) > 0 /\ \A i \in 1..Len(cs) : cs[i] \in OctalDigits

RECURSIVE OctalValue(_)
OctalValue(cs) ==
    IF Len(cs) = 0 THEN 0
    ELSE 8 * OctalValue(SubSeq(cs, 1, Len(cs) - 1)) + DigitValue(cs[Len(cs)])

\* the number of lines tail and head print
TailCount == 10
HeadCount == 10

RECURSIVE Significant(_)
\* the digits without their leading zeros
Significant(cs) ==
    IF Len(cs) > 0 /\ cs[1] = "0" THEN Significant(Tail(cs)) ELSE cs

\* os.chmod raises OverflowError for a mode above the largest C int,
\* 2^31 - 1, which is 17777777777 in octal
ExceedsCInt(cs) ==
    LET sig == Significant(cs)
    IN  \/ Len(sig) > Len(CIntMaxOctal)
        \/ Len(sig) = Len(CIntMaxOctal) /\ DigitValue(sig[1]) > DigitValue(CIntMaxOctal[1])

\* the permission bits the chmod system call keeps
ModeMask == 8^4

OwnerRead(m) == (m \div 256) % 2 = 1
OwnerWrite(m) == (m \div 128) % 2 = 1
OwnerExec(m) == (m \div 64) % 2 = 1

\* the modes of freshly extracted files and directories
DefaultFileMode == OctalValue(<<"6", "4", "4">>)
DefaultDirMode == OctalValue(<<"7", "5", "5">>)

---------------------------------------------------------------------------
(* The extracted tree *)

TEMP_FS == <<>>

AllDirs(t) == t.dirs

RECURSIVE Filter(_, _)
\* the names of the sequence s that are in the set S, in the order of s
Filter(s, S) ==
    IF Len(s) = 0 THEN <<>>
    ELSE IF s[1] \in S THEN <<s[1]>> \o Filter(Tail(s), S)
    ELSE Filter(Tail(s), S)

\* os.walk's dirs and files of directory d
SubDirs(t, d) == Filter(ScanOrder, {n \in Names : Join(d, n) \in t.dirs})
Files(t, d) == Filter(ScanOrder, {n \in Names : Join(d, n) \in t.files})

RECURSIVE WalkFrom(_, _, _)
\* os.walk, top-down: the directory d, then the walk of each of its
\* subdirectories from the i-th on
WalkFrom(t, d, i) ==
    LET subs == SubDirs(t, d)
    IN  IF i > Len(subs) THEN <<>>
        ELSE <<Join(d, subs[i])>>
             \o WalkFrom(t, Join(d, subs[i]), 1)
             \o WalkFrom(t, d, i + 1)

\* os.walk('temp_fs') yields nothing when temp_fs does not exist
Walk(t) == IF TEMP_FS \in t.dirs THEN <<TEMP_FS>> \o WalkFrom(t, TEMP_FS, 1) ELSE <<>>

\* os.path.relpath(root, 'temp_fs'), with '.' replaced by "root"
RelativeRoot(d) == IF d = TEMP_FS THEN ROOT ELSE d

\* self.fs[key] = value
Store(m, key, value) ==
    [k \in DOMAIN m \cup {key} |-> IF k = key THEN value ELSE m[k]]

RECURSIVE Index(_, _, _, _)
Index(t, w, i, m) ==
    IF i > Len(w) THEN m
    ELSE Index(t, w, i + 1,
               Store(m, RelativeRoot(w[i]), SubDirs(t, w[i]) \o Files(t, w[i])))

\* load_filesystem: self.fs is reset, then filled along the walk
LoadFilesystem(t) == Index(t, Walk(t), 1, <<>>)

\* the lines of a file: line i of a file is the number i
FileLines(t, p) == [i \in 1..t.lines[p] |-> i]

Prefix(p, i) == SubSeq(p, 1, i)

\* every directory on the way to p exists and may be searched
Reachable(p) ==
    \A i \in 0..(Len(p) - 1) :
        /\ Prefix(p, i) \in AllDirs(tree)
        /\ (privileged \/ OwnerExec(mode[Prefix(p, i)]))

\* os.path.isfile and os.path.exists
IsFile(p) == p \in tree.files /\ Reachable(p)
Exists(p) == p \in (tree.files \cup AllDirs(tree)) /\ Reachable(p)

\* open(file_path, 'r') raises PermissionError on a file without read access
MayRead(p) == privileged \/ OwnerRead(mode[p])

---------------------------------------------------------------------------
(* Trees of at most MaxEntries entries *)

\* temp_fs with no entry, and no temp_fs at all
EmptyTree == [dirs |-> {TEMP_FS}, files |-> {}]
NoTree == [dirs |-> {}, files |-> {}, lines |-> <<>>]

\* the trees obtained from t by adding one entry to one of its directories
Grow(t) ==
    { [dirs |-> t.dirs \cup D, files |-> t.files \cup F] :
        <<D, F>> \in
          { <<{p}, {}>> : p \in
              { Join(d, n) : d \in AllDirs(t), n \in DirNames } \ t.dirs }
          \cup
          { <<{}, {p}>> : p \in
              { Join(d, n) : d \in AllDirs(t), n \in FileNames } \ t.files } }

RECURSIVE Shapes(_)
Shapes(k) ==
    IF k = 0 THEN {EmptyTree}
    ELSE LET S == Shapes(k - 1)
         IN  S \cup UNION { Grow(t) : t \in S }

Trees ==
    UNION { { [dirs |-> s.dirs, files |-> s.files, lines |-> l] :
                l \in [s.files -> LineCounts] } : s \in Shapes(MaxEntries) }
    \cup {NoTree}

---------------------------------------------------------------------------
(* Output and audit log *)

\* one print call: the format string, its arguments, and printed file lines
Msg(m, a1, a2, ls) == [msg |-> m, a1 |-> a1, a2 |-> a2, lines |-> ls]

Text(m) == Msg(m, <<>>, <<>>, <<>>)
Text1(m, a1) == Msg(m, a1, <<>>, <<>>)

\* run_command's handler of an exception raised by a command
Caught(m, a1) == Msg("Error executing command: " \o m, a1, <<>>, <<>>)

Action(m, a1, a2) == [msg |-> m, a1 |-> a1, a2 |-> a2]

\* an entry that records the cursor the command started from
WriteLogMutant(lg, action, c) == Append(lg, [action |-> action, cwd |-> cwd])

\* write_log: the entry is appended with the current self.cwd
WriteLog(lg, action, c) == Append(lg, [action |-> action, cwd |-> c])

\* json.dump(self.log, f) replaces the content of the log file
Dump(lg) == lg

\* run_command accepts a command line while the session runs; the model
\* follows a session until its log holds MaxLog entries
Accepts == running /\ Len(log) < MaxLog

Cmd(verb, args) == [verb |-> verb, args |-> args, cwd |-> cwd, logged |-> Len(log)]

---------------------------------------------------------------------------
(* Construction *)

Init ==
    /\ tree \in Trees
    /\ mode = [p \in AllDirs(tree) \cup tree.files |->
                  IF p \in tree.files THEN DefaultFileMode ELSE DefaultDirMode]
    /\ privileged \in BOOLEAN
    /\ fs = LoadFilesystem(tree)
    /\ cwd = ROOT
    /\ log = WriteLog(<<>>, Action("Shell Emulator initialized with path {}",
                                   <<FsPath>>, <<>>), ROOT)
    /\ disk = Dump(log)
    /\ running = TRUE
    /\ last = [verb |-> "", args |-> <<>>, cwd |-> ROOT, logged |-> 0]
    /\ out = <<>>

---------------------------------------------------------------------------
(* Commands *)

\* self.fs.get(self.cwd, [])
Entries(m, c) == IF c \in DOMAIN m THEN m[c] ELSE <<>>

InSeq(x, s) == \E i \in 1..Len(s) : s[i] = x

\* an append that leaves the log file as it was
LoggedMutant(lg) ==
    /\ log' = lg
    /\ disk' = disk

\* the log after a command that appends at most one entry
Logged(lg) ==
    /\ log' = lg
    /\ disk' = IF lg = log THEN disk ELSE Dump(lg)

Ls ==
    /\ Accepts
    /\ last' = Cmd("ls", <<>>)
    /\ out' = IF cwd \in DOMAIN fs
              THEN IF fs[cwd] # <<>>
                   THEN <<Text1("{}", fs[cwd])>>
                   ELSE <<Text("No files or directories found.")>>
              ELSE <<Text1("Error: Current directory '{}' not found in filesystem.", cwd)>>
    /\ Logged(WriteLog(log, Action("ls command executed in {}", cwd, <<>>), cwd))
    /\ UNCHANGED <<tree, mode, privileged, fs, cwd, running>>

\* cd "..": the guard that the cursor is the root
AtRootMutant(c) == FALSE
AtRoot(c) == c = ROOT

\* cd: the entry is listed in the current directory
ListedMutant(m, c, directory) == TRUE
Listed(m, c, directory) == InSeq(directory, Entries(m, c))

\* cd: the path of the entry directory of the current directory
NewPathMutant(c, directory) == Join(c, directory)
NewPath(c, directory) == IF c # ROOT THEN Join(c, directory) ELSE <<directory>>

\* cd: the path is a key of self.fs
IsKeyMutant(m, p) == TRUE
IsKey(m, p) == p \in DOMAIN m

Cd(directory) ==
    /\ Accepts
    /\ last' = Cmd("cd", <<directory>>)
    /\ IF directory = ".."
       THEN IF ~AtRoot(cwd)
            THEN /\ cwd' = Dirname(cwd)
                 /\ Logged(WriteLog(log, Action("Changed directory to {}", cwd', <<>>), cwd'))
                 /\ out' = <<>>
            ELSE /\ out' = <<Text("Already in root directory.")>>
                 /\ UNCHANGED <<cwd, log, disk>>
       ELSE IF Listed(fs, cwd, directory)
            THEN IF IsKey(fs, NewPath(cwd, directory))
                 THEN /\ cwd' = NewPath(cwd, directory)
                      /\ Logged(WriteLog(log, Action("Changed directory to {}", cwd', <<>>), cwd'))
                      /\ out' = <<>>
                 ELSE /\ out' = <<Caught("cd: {}: Not a directory", <<directory>>)>>
                      /\ UNCHANGED <<cwd, log, disk>>
            ELSE /\ out' = <<Caught("cd: {}: No such directory", <<directory>>)>>
                 /\ UNCHANGED <<cwd, log, disk>>
    /\ UNCHANGED <<tree, mode, privileged, fs, running>>

\* the file os.path.join('temp_fs', self.cwd, file_name) names
FilePath(c, file_name) == Join(c, file_name)

\* lines[-10:]
LastLinesMutant(lines) ==
    SubSeq(lines, IF Len(lines) > TailCount THEN Len(lines) - TailCount ELSE 1,
           Len(lines))
LastLines(lines) ==
    SubSeq(lines, IF Len(lines) > TailCount THEN Len(lines) - TailCount + 1 ELSE 1,
           Len(lines))

\* lines[:10]
FirstLines(lines) ==
    SubSeq(lines, 1, IF Len(lines) > HeadCount THEN HeadCount ELSE Len(lines))

\* the PermissionError of open(file_path, 'r'), as run_command prints it
PermissionDenied(p) == Caught("[Errno 13] Permission denied: '{}'", <<"temp_fs">> \o p)

TailCmd(file_name) ==
    /\ Accepts
    /\ last' = Cmd("tail", <<file_name>>)
    /\ IF IsFile(FilePath(cwd, file_name))
       THEN IF MayRead(FilePath(cwd, file_name))
            THEN /\ out' = <<Msg("{}", <<>>, <<>>,
                                 LastLines(FileLines(tree, FilePath(cwd, file_name))))>>
                 /\ Logged(WriteLog(log, Action("tail command executed on {}",
                                                <<file_name>>, <<>>), cwd))
            ELSE /\ out' = <<PermissionDenied(FilePath(cwd, file_name))>>
                 /\ UNCHANGED <<log, disk>>
       ELSE /\ out' = <<Text1("tail: {}: No such file", <<file_name>>)>>
            /\ UNCHANGED <<log, disk>>
    /\ UNCHANGED <<tree, mode, privileged, fs, cwd, running>>

\* head that records the command whether or not the file was found
HeadCmdMutant(file_name) ==
    /\ Accepts
    /\ last' = Cmd("head", <<file_name>>)
    /\ IF IsFile(FilePath(cwd, file_name))
       THEN IF MayRead(FilePath(cwd, file_name))
            THEN out' = <<Msg("{}", <<>>, <<>>,
                              FirstLines(FileLines(tree, FilePath(cwd, file_name))))>>
            ELSE out' = <<PermissionDenied(FilePath(cwd, file_name))>>
       ELSE out' = <<Text1("head: {}: No such file", <<file_name>>)>>
    /\ IF IsFile(FilePath(cwd, file_name)) /\ ~MayRead(FilePath(cwd, file_name))
       THEN UNCHANGED <<log, disk>>
       ELSE Logged(WriteLog(log, Action("head command executed on {}",
                                        <<file_name>>, <<>>), cwd))
    /\ UNCHANGED <<tree, mode, privileged, fs, cwd, running>>

HeadCmd(file_name) ==
    /\ Accepts
    /\ last' = Cmd("head", <<file_name>>)
    /\ IF IsFile(FilePath(cwd, file_name))
       THEN IF MayRead(FilePath(cwd, file_name))
            THEN /\ out' = <<Msg("{}", <<>>, <<>>,
                                 FirstLines(FileLines(tree, FilePath(cwd, file_name))))>>
                 /\ Logged(WriteLog(log, Action("head command executed on {}",
                                                <<file_name>>, <<>>), cwd))
            ELSE /\ out' = <<PermissionDenied(FilePath(cwd, file_name))>>
                 /\ UNCHANGED <<log, disk>>
       ELSE /\ out' = <<Text1("head: {}: No such file", <<file_name>>)>>
            /\ UNCHANGED <<log, disk>>
    /\ UNCHANGED <<tree, mode, privileged, fs, cwd, running>>

Chmod(permissions, file_name) ==
    /\ Accepts
    /\ last' = Cmd("chmod", <<permissions, file_name>>)
    /\ IF Exists(FilePath(cwd, file_name))
       THEN IF ~IsOctal(Chars(permissions))
            THEN /\ out' = <<Text("chmod: invalid permissions format")>>
                 /\ UNCHANGED <<mode, log, disk>>
            ELSE IF ExceedsCInt(Chars(permissions))
            THEN /\ out' = <<Caught("Python int too large to convert to C int", <<>>)>>
                 /\ UNCHANGED <<mode, log, disk>>
            ELSE /\ mode' = [mode EXCEPT ![FilePath(cwd, file_name)] =
                                 OctalValue(Chars(permissions)) % ModeMask]
                 /\ out' = <<Msg("Permissions of {} changed to {}",
                                 <<file_name>>, <<permissions>>, <<>>)>>
                 /\ Logged(WriteLog(log,
                        Action("chmod command executed on {} with permissions {}",
                               <<file_name>>, <<permissions>>), cwd))
       ELSE /\ out' = <<Text1("chmod: {}: No such file or directory", <<file_name>>)>>
            /\ UNCHANGED <<mode, log, disk>>
    /\ UNCHANGED <<tree, privileged, fs, cwd, running>>

\* a missing argument reported with a usage line after the message
MissingArgumentMutant(verb, args) ==
    /\ Accepts
    /\ last' = Cmd(verb, args)
    /\ out' = <<Text(verb \o ": missing argument"), Text("usage: " \o verb)>>
    /\ UNCHANGED <<tree, mode, privileged, fs, cwd, log, disk, running>>

\* cd, tail, head with no argument; chmod with fewer than two
MissingArgument(verb, args) ==
    /\ Accepts
    /\ last' = Cmd(verb, args)
    /\ out' = <<Text(verb \o (IF verb = "chmod" THEN ": missing arguments"
                                               ELSE ": missing argument"))>>
    /\ UNCHANGED <<tree, mode, privileged, fs, cwd, log, disk, running>>

\* exit that terminates before the session end is recorded
ExitMutant ==
    /\ Accepts
    /\ last' = Cmd("exit", <<>>)
    /\ out' = <<Text("Exiting shell emulator")>>
    /\ running' = FALSE
    /\ UNCHANGED <<tree, mode, privileged, fs, cwd, log, disk>>

Exit ==
    /\ Accepts
    /\ last' = Cmd("exit", <<>>)
    /\ out' = <<Text("Exiting shell emulator")>>
    /\ Logged(WriteLog(log, Action("Shell Emulator exited", <<>>, <<>>), cwd))
    /\ running' = FALSE
    /\ UNCHANGED <<tree, mode, privileged, fs, cwd>>

\* an unknown verb that is recorded in the audit log as well
UnknownMutant(verb) ==
    /\ Accepts
    /\ last' = Cmd(verb, <<>>)
    /\ out' = <<Text1("Unknown command: {}", <<verb>>)>>
    /\ Logged(WriteLog(log, Action("Unknown command: {}", <<verb>>, <<>>), cwd))
    /\ UNCHANGED <<tree, mode, privileged, fs, cwd, running>>

Unknown(verb) ==
    /\ Accepts
    /\ last' = Cmd(verb, <<>>)
    /\ out' = <<Text1("Unknown command: {}", <<verb>>)>>
    /\ UNCHANGED <<tree, mode, privileged, fs, cwd, log, disk, running>>

Empty ==
    /\ Accepts
    /\ last' = Cmd("", <<>>)
    /\ out' = <<Text("Empty command")>>
    /\ UNCHANGED <<tree, mode, privileged, fs, cwd, log, disk, running>>

---------------------------------------------------------------------------
(* The test verb: run_tests runs TestShellEmulator in the same directory. *)
(* Every setUp builds a ShellEmulator from test_config.ini, which extracts *)
(* test_filesystem.zip into temp_fs and logs to its own log file; the      *)
(* tests of tail and head write temp_fs/root/test_file.txt and print it.   *)

\* the members of test_filesystem.zip, each a file of one line, in the two
\* orders os.walk can list the files of test_fs
ZipOrders ==
    { <<<<"file1.txt">>, <<"file2.txt">>, <<"subdir", "file3.txt">>>>,
      <<<<"file2.txt">>, <<"file1.txt">>, <<"subdir", "file3.txt">>>> }

\* the path of the file the tests of tail and head write, and its lines
TestFile == <<"root", "test_file.txt">>
TestFileLines == <<1, 2, 3>>

RECURSIVE MakeDir(_, _)
\* os.makedirs(d, exist_ok=True): the missing directories down to d are made
MakeDir(st, d) ==
    IF d \in st.tree.dirs THEN st
    ELSE LET up == IF Len(d) = 0 THEN st ELSE MakeDir(st, Dirname(d))
         IN  [tree |-> [up.tree EXCEPT !.dirs = @ \cup {d}],
              mode |-> [p \in DOMAIN up.mode \cup {d} |->
                           IF p = d THEN DefaultDirMode ELSE up.mode[p]]]

\* open(p, 'w') succeeds: the directories on the way may be searched, and an
\* existing file may be written, a new one created in its directory
MayWrite(st, p) ==
    \/ privileged
    \/ /\ \A i \in 0..(Len(p) - 1) : OwnerExec(st.mode[Prefix(p, i)])
       /\ IF p \in st.tree.files THEN OwnerWrite(st.mode[p])
          ELSE OwnerWrite(st.mode[Dirname(p)])

\* the tree after n lines are written to the file p
WriteFile(st, p, n) ==
    [tree |-> [dirs |-> st.tree.dirs,
               files |-> st.tree.files \cup {p},
               lines |-> [q \in st.tree.files \cup {p} |->
                             IF q = p THEN n ELSE st.tree.lines[q]]],
     mode |-> [q \in DOMAIN st.mode \cup {p} |->
                  IF q \in DOMAIN st.mode THEN st.mode[q] ELSE DefaultFileMode]]

RECURSIVE Extract(_, _, _)
\* zipfile.extractall from the i-th member on: the member's directory is
\* made, the member written; the first failure ends the extraction
Extract(st, members, i) ==
    IF i > Len(members) THEN [st |-> st, ok |-> TRUE]
    ELSE LET p == members[i]
             made == MakeDir(st, Dirname(p))
         IN  IF MayWrite(made, p)
             THEN Extract(WriteFile(made, p, 1), members, i + 1)
             ELSE [st |-> made, ok |-> FALSE]

\* test_head_valid and test_tail_valid: the file is written, then printed
\* by head and tail of an emulator whose cursor is "root"
WriteTestFile(st) ==
    LET made == MakeDir(st, Dirname(TestFile))
    IN  IF MayWrite(made, TestFile)
        THEN [st |-> WriteFile(made, TestFile, Len(TestFileLines)), printed |-> TRUE]
        ELSE [st |-> made, printed |-> FALSE]

\* one run of the tests on the tree st: the setUp of every test extracts the
\* archive, and the tests of tail and head run when it succeeds
RunTests(st, members) ==
    LET ex == Extract(st, members, 1)
    IN  IF ex.ok THEN WriteTestFile(ex.st) ELSE [st |-> ex.st, printed |-> FALSE]

Test ==
    /\ Accepts
    /\ last' = Cmd("test", <<>>)
    /\ \E done \in { RunTests([tree |-> tree, mode |-> mode], members) :
                        members \in ZipOrders } :
          /\ tree' = done.st.tree
          /\ mode' = done.st.mode
          /\ out' = <<Text("Running tests...")>> \o
                    (IF done.printed
                     THEN <<Msg("{}", <<>>, <<>>, FirstLines(TestFileLines)),
                            Msg("{}", <<>>, <<>>, LastLines(TestFileLines))>>
                     ELSE <<>>)
    /\ UNCHANGED <<privileged, fs, cwd, log, disk, running>>

\* run_command on the tokens of one command line.  The arguments of cd,
\* tail, head and chmod range over the entry names of the tree (and ".."
\* for cd), so a name missing from a directory stands for any other word.
Next ==
    \/ Ls
    \/ \E d \in Names \cup {".."} : Cd(d)
    \/ \E f \in Names : TailCmd(f)
    \/ \E f \in Names : HeadCmd(f)
    \/ \E p \in ModeTokens, f \in Names : Chmod(p, f)
    \/ \E verb \in {"cd", "tail", "head"} : MissingArgument(verb, <<>>)
    \/ \E a \in {<<>>, <<"644">>} : MissingArgument("chmod", a)
    \/ Exit
    \/ Test
    \/ \E verb \in OtherVerbs : Unknown(verb)
    \/ Empty

Spec == Init /\ [][Next]_vars

---------------------------------------------------------------------------
(* Properties *)

\* the name n is listed in mapping[c]
IsListed(c, n) == c \in DOMAIN fs /\ \E i \in 1..Len(fs[c]) : fs[c][i] = n

\* the candidate path of the entry n of the directory c
Candidate(c, n) == IF c = ROOT THEN <<n>> ELSE c \o <<n>>

\* the parent of a path: its last segment stripped, "root" when none remains
ParentOf(p) == IF Len(p) <= 1 THEN ROOT ELSE SubSeq(p, 1, Len(p) - 1)

Min(a, b) == IF a < b THEN a ELSE b

\* the last command was verb with exactly one argument
Ran1(verb) == last.verb = verb /\ Len(last.args) = 1

\* C1: after any sequence of commands the cursor is a key of the mapping.
C1_NoDanglingCursor == cwd \in DOMAIN fs

\* C2: cd ".." from a non-root cursor sets the cursor to the parent, the
\* last segment stripped, and to "root" when no segment remains.
C2_CdUpGoesToParent ==
    (Ran1("cd") /\ last.args[1] = ".." /\ last.cwd # ROOT)
        => cwd = ParentOf(last.cwd)

\* C3: cd ".." while the cursor is "root" leaves the cursor at "root",
\* prints only the already-at-root notice, and leaves the mapping unchanged.
C3_CdUpAtRootIsNoOp ==
    [][(last'.verb = "cd" /\ last'.args = <<"..">> /\ cwd = ROOT)
          => /\ cwd' = ROOT
             /\ fs' = fs
             /\ out' = <<Text("Already in root directory.")>>]_vars

C3_Witness ==
    /\ Ran1("cd") /\ last.args[1] = ".." /\ last.cwd = ROOT
    /\ cwd = ROOT
    /\ out = <<Text("Already in root directory.")>>

\* C4: cd n, for a name n listed in mapping[c] whose candidate path is not a
\* key of the mapping, fails with "Not a directory" and leaves the cursor.
C4_CdIntoFileFails ==
    (Ran1("cd") /\ IsListed(last.cwd, last.args[1])
               /\ Candidate(last.cwd, last.args[1]) \notin DOMAIN fs)
        => /\ cwd = last.cwd
           /\ out = <<Caught("cd: {}: Not a directory", last.args)>>

C4_Witness ==
    /\ Ran1("cd") /\ IsListed(last.cwd, last.args[1])
    /\ Candidate(last.cwd, last.args[1]) \notin DOMAIN fs
    /\ last.cwd # ROOT
    /\ out = <<Caught("cd: {}: Not a directory", last.args)>>

\* C5: cd n, for a name n other than ".." that mapping[c] does not list,
\* fails with "No such directory" and leaves the cursor.
C5_CdUnlistedFails ==
    (Ran1("cd") /\ last.args[1] # ".." /\ ~IsListed(last.cwd, last.args[1]))
        => /\ cwd = last.cwd
           /\ out = <<Caught("cd: {}: No such directory", last.args)>>

C5_Witness ==
    /\ Ran1("cd") /\ last.args[1] # ".." /\ ~IsListed(last.cwd, last.args[1])
    /\ ROOT \in DOMAIN fs /\ fs[ROOT] # <<>>
    /\ cwd = last.cwd
    /\ out = <<Caught("cd: {}: No such directory", last.args)>>

\* C6: cd n, for a name n listed in mapping[c] whose candidate path is a key
\* of the mapping, prints no error and sets the cursor to the candidate path.
C6_CdIntoDirectory ==
    (Ran1("cd") /\ IsListed(last.cwd, last.args[1])
               /\ Candidate(last.cwd, last.args[1]) \in DOMAIN fs)
        => /\ cwd = Candidate(last.cwd, last.args[1])
           /\ out = <<>>

C6_Witness ==
    /\ Ran1("cd") /\ IsListed(last.cwd, last.args[1])
    /\ last.cwd # ROOT
    /\ cwd = last.cwd \o last.args
    /\ out = <<>>

\* C7: head f and tail f, for a name f that mapping[c] lists and that is no
\* key of the mapping, print the lines of the file, at every cursor c.
C7_HeadTailFindListedFile ==
    ((Ran1("head") \/ Ran1("tail"))
        /\ IsListed(last.cwd, last.args[1])
        /\ Candidate(last.cwd, last.args[1]) \notin DOMAIN fs)
        => Len(out) = 1 /\ out[1].msg = "{}"

\* C8: when head or tail finds its file, with the lines L of length n, head
\* prints the first min(10, n) lines of L and tail the last min(10, n), in
\* their order.
C8_HeadTailLines ==
    ((Ran1("head") \/ Ran1("tail"))
        /\ IsFile(FilePath(last.cwd, last.args[1]))
        /\ MayRead(FilePath(last.cwd, last.args[1])))
        => LET L == FileLines(tree, FilePath(last.cwd, last.args[1]))
               n == Len(L)
               k == Min(10, n)
           IN  /\ Len(out) = 1
               /\ out[1].msg = "{}"
               /\ out[1].lines =
                     IF last.verb = "head"
                     THEN [i \in 1..k |-> L[i]]
                     ELSE [i \in 1..k |-> L[n - k + i]]

C8_Witness ==
    /\ Ran1("tail")
    /\ IsFile(FilePath(last.cwd, last.args[1]))
    /\ Len(FileLines(tree, FilePath(last.cwd, last.args[1]))) > 10
    /\ Len(out) = 1
    /\ out[1].lines = <<3, 4, 5, 6, 7, 8, 9, 10, 11, 12>>

\* C9: chmod mode f, for a file f listed in the current directory, prints
\* the confirmation with the mode when the mode is valid octal, and reports
\* the invalid format otherwise, leaving the cursor and the log unchanged.
C9_ChmodListedFile ==
    (last.verb = "chmod" /\ Len(last.args) = 2
        /\ IsListed(last.cwd, last.args[2])
        /\ Candidate(last.cwd, last.args[2]) \notin DOMAIN fs)
        => IF IsOctal(Chars(last.args[1]))
           THEN out = <<Msg("Permissions of {} changed to {}",
                            <<last.args[2]>>, <<last.args[1]>>, <<>>)>>
           ELSE /\ out = <<Text("chmod: invalid permissions format")>>
                /\ cwd = last.cwd
                /\ Len(log) = last.logged

\* C10: ls prints the entries of mapping[cursor] in their stored order, or
\* the empty notice when there are none, and leaves the cursor.
C10_LsListsCursor ==
    last.verb = "ls"
        => /\ cwd = last.cwd
           /\ cwd \in DOMAIN fs
           /\ out = <<IF fs[cwd] = <<>>
                      THEN Text("No files or directories found.")
                      ELSE Text1("{}", fs[cwd])>>

\* the verbs of the command-line surface the specification lists
ListedVerbs == {"ls", "cd", "head", "tail", "chmod", "exit"}

\* C11 as stated: a command whose first token is none of ls, cd, head, tail,
\* chmod, exit prints the unknown-command notice, and empty input prints a
\* notice; the cursor and the log are as before.
C11_OtherVerbsUnknown ==
    (last.logged > 0 /\ last.verb \notin ListedVerbs)
        => /\ out = <<IF last.verb = "" THEN Text("Empty command")
                      ELSE Text1("Unknown command: {}", <<last.verb>>)>>
           /\ cwd = last.cwd
           /\ Len(log) = last.logged

\* C11, amended: a command whose first token is none of ls, cd, head, tail,
\* chmod, exit, test prints the unknown-command notice, and empty input
\* prints a notice; the cursor, the mapping and the log stay as they are and
\* the session goes on.
C11_UnknownOrEmpty ==
    [][(last'.verb \notin ListedVerbs \cup {"test"})
          => /\ out' = <<IF last'.verb = "" THEN Text("Empty command")
                         ELSE Text1("Unknown command: {}", <<last'.verb>>)>>
             /\ cwd' = cwd
             /\ fs' = fs
             /\ log' = log
             /\ disk' = disk
             /\ running']_vars

C11_Witness ==
    /\ last.verb \in OtherVerbs
    /\ last.cwd # ROOT
    /\ out = <<Text1("Unknown command: {}", <<last.verb>>)>>
    /\ running

\* the last command failed: an argument is missing, cd names no listed
\* entry or a file, head or tail names no file, chmod names no file or
\* gives a mode that is not octal
Failed ==
    \/ last.verb \in {"cd", "head", "tail"} /\ last.args = <<>>
    \/ last.verb = "chmod" /\ Len(last.args) < 2
    \/ Ran1("cd") /\ last.args[1] # ".." /\ ~IsListed(last.cwd, last.args[1])
    \/ Ran1("cd") /\ IsListed(last.cwd, last.args[1])
                  /\ Candidate(last.cwd, last.args[1]) \notin DOMAIN fs
    \/ (Ran1("head") \/ Ran1("tail")) /\ ~IsFile(FilePath(last.cwd, last.args[1]))
    \/ last.verb = "chmod" /\ Len(last.args) = 2
          /\ (~Exists(FilePath(last.cwd, last.args[2])) \/ ~IsOctal(Chars(last.args[1])))

\* C12: a failing command prints exactly one line and leaves the session
\* running; only exit ends the session.
C12_FailuresPrintOneLine ==
    /\ Failed => (Len(out) = 1 /\ out[1].lines = <<>> /\ running)
    /\ ~running => last.verb = "exit"

C12_Witness ==
    /\ Failed
    /\ last.verb = "chmod" /\ Len(last.args) = 2
    /\ out = <<Text("chmod: invalid permissions format")>>
    /\ running

\* the state right after construction: no command has run
Constructed == last.logged = 0

\* C13: the mapping built from any extracted tree has "root" as a key, and
\* maps it to the empty sequence when the tree is empty.
C13_RootIsKey ==
    Constructed
        => /\ ROOT \in DOMAIN fs
           /\ (tree.files = {} /\ tree.dirs \subseteq {TEMP_FS}) => fs[ROOT] = <<>>

\* C14: cd appends one audit entry when the cursor value after it differs
\* from the value before, and none when the value is the same.
C14_CdLogsIffCursorChanged ==
    Ran1("cd") => Len(log) = last.logged + (IF cwd # last.cwd THEN 1 ELSE 0)

\* C15: an entry a command appends carries the cursor value after the
\* command, and every ls appends exactly one entry.
C15_EntryCarriesCursorAfter ==
    /\ (Len(log) > last.logged)
          => (Len(log) = last.logged + 1 /\ log[Len(log)].cwd = cwd)
    /\ (last.verb = "ls")
          => /\ Len(log) = last.logged + 1
             /\ log[Len(log)].action = Action("ls command executed in {}", cwd, <<>>)

C15_Witness ==
    /\ Ran1("cd") /\ cwd # last.cwd /\ cwd # <<>>
    /\ Len(log) = last.logged + 1
    /\ log[Len(log)].cwd = cwd

\* C16 as stated: head and tail append one audit entry when the file is
\* found and none when it is not found or the argument is missing.
C16_HeadTailLogWhenFound ==
    (last.verb \in {"head", "tail"})
        => Len(log) = last.logged +
              (IF Len(last.args) = 1 /\ IsFile(FilePath(last.cwd, last.args[1]))
               THEN 1 ELSE 0)

\* C16, amended: head and tail append one audit entry when the file is
\* found and can be read, and none when it is not found, when it cannot be
\* read, or when the argument is missing.
C16_HeadTailLogWhenRead ==
    (last.verb \in {"head", "tail"})
        => Len(log) = last.logged +
              (IF Len(last.args) = 1 /\ IsFile(FilePath(last.cwd, last.args[1]))
                                    /\ MayRead(FilePath(last.cwd, last.args[1]))
               THEN 1 ELSE 0)

C16_Witness ==
    /\ Ran1("head")
    /\ IsFile(FilePath(last.cwd, last.args[1]))
    /\ ~MayRead(FilePath(last.cwd, last.args[1]))
    /\ Len(log) = last.logged
    /\ out = <<PermissionDenied(FilePath(last.cwd, last.args[1]))>>

\* C17: every step keeps the entries of the log where they are, appends at
\* most one entry, and after an append the log file holds the log.
C17_LogGrowsMonotonically ==
    [][/\ Len(log') \in {Len(log), Len(log) + 1}
       /\ \A i \in 1..Len(log) : log'[i] = log[i]
       /\ (log' # log) => disk' = log'
       /\ (log' = log) => disk' = disk]_vars

C17_Witness ==
    /\ Len(log) = MaxLog
    /\ disk = log
    /\ log[Len(log)].cwd # log[1].cwd

\* C18: the step that ends the session is exit: it prints the farewell and
\* appends the session-end entry with the cursor of that moment; no command
\* runs once the session has ended.
C18_ExitRecordsThenTerminates ==
    [][/\ running
       /\ ~running' =>
             /\ last'.verb = "exit"
             /\ out' = <<Text("Exiting shell emulator")>>
             /\ cwd' = cwd
             /\ log' = Append(log, [action |-> Action("Shell Emulator exited", <<>>, <<>>),
                                    cwd |-> cwd])]_vars

C18_Witness ==
    /\ ~running
    /\ last.verb = "exit"
    /\ cwd # ROOT
    /\ log[Len(log)].action.msg = "Shell Emulator exited"
    /\ log[Len(log)].cwd = cwd

RECURSIVE UpReachesRoot(_, _)
\* n or fewer cd ".." commands take the cursor c to "root"
UpReachesRoot(c, n) ==
    \/ c = ROOT
    \/ n > 0 /\ ~AtRoot(c) /\ UpReachesRoot(Dirname(c), n - 1)

\* C19: from every cursor the commands reach, cd ".." commands lead back to
\* the cursor "root".
C19_RootReachableByCdUp == UpReachesRoot(cwd, Len(cwd) + 1)

\* C20: the mapping built from an extracted tree lists under "root" the
\* direct children of the extracted root.
C20_RootListsTopLevel ==
    (Constructed /\ TEMP_FS \in tree.dirs)
        => /\ ROOT \in DOMAIN fs
           /\ fs[ROOT] = SubDirs(tree, TEMP_FS) \o Files(tree, TEMP_FS)

====
